---- MODULE Spec2Model ----
(***************************************************************************)
(* Adaptive TLS-backend selection of src/hbbs_http/http_client.rs:         *)
(* the client builder (configure_http_client!), the cache-key choice       *)
(* (get_url_for_tls), and the blocking and the suspending fallback         *)
(* orchestrators (create_http_client_with_url[_],                          *)
(* create_http_client_async_with_url[_]), run by callers that share the    *)
(* process-wide TLS cache of hbb_common::tls.                              *)
(***************************************************************************)
EXTENDS Naturals, Sequences, FiniteSets, TLC

\* ------------------------------------------------------------------------
\* Bounds of the model
\* ------------------------------------------------------------------------

\* calls of the public entry points made in one behaviour
MaxCalls == 2

\* probes after which a call is cut off (the code itself stops earlier)
MaxProbes == 4

\* ------------------------------------------------------------------------
\* Values
\* ------------------------------------------------------------------------

\* Option<T>: None is the empty sequence, Some(v) the one-element sequence
None == <<>>

Some(v) == <<v>>

is_some(o) == o # None

unwrap_or(o, d) == IF o = None THEN d ELSE o[1]

\* hbb_common::tls::TlsType
TlsType == {"Plain", "NativeTls", "Rustls"}

OptTlsType == {None} \cup {Some(t) : t \in TlsType}

OptBool == {None} \cup {Some(b) : b \in BOOLEAN}

\* a URL is its scheme and the rest of the string
Url(scheme, rest) == <<scheme, rest>>

scheme_of(url) == url[1]

rest_of(url) == url[2]

\* the target URLs the callers ask for
Targets == {Url("http", "a"), Url("http", "b"), Url("https", "c")}

\* the address every configured proxy has
ProxyHost == "proxy:443"

\* Socks5Server values Config::get_socks() can return: the proxy URL, whether
\* credentials are set, and which step of applying the proxy fails
\* ("from_conf": Proxy::from_conf returns Err; "proxy_all": reqwest::Proxy::all
\* returns Err)
ProxyConfs ==
    [proxy : {Url(s, ProxyHost) : s \in {"http", "https", "socks5"}},
     has_auth : BOOLEAN,
     fault : {"none", "from_conf", "proxy_all"}]

\* the proxy configurations the orchestrator is run with
OrchestratorConfs ==
    {None}
    \cup {Some([proxy |-> Url(s, ProxyHost), has_auth |-> FALSE, fault |-> "none"]) :
            s \in {"http", "https", "socks5"}}
    \cup {Some([proxy |-> Url("https", ProxyHost), has_auth |-> TRUE,
                fault |-> "from_conf"])}

\* keys of the TLS cache: every URL get_url_for_tls can return
Keys == Targets \cup {Url("https", ProxyHost)}

\* the callers
Procs == {"p1", "p2"}

\* outcome of client.head(url).send()
Outcomes == {"Success", "ConnectFailure", "OtherFailure"}

\* reqwest::Error::is_request of a failed probe
is_request(e) == e = "ConnectFailure"

VARIABLES
    tls_types,  \* hbb_common::tls cache: key -> Option<TlsType>
    tls_certs,  \* hbb_common::tls cache: key -> Option<bool> (accept invalid cert)
    socks,      \* Config::get_socks(): Option<Socks5Server>
    build_ok,   \* whether ClientBuilder::build() succeeds on this host
    call,       \* per caller: the frame of its current call and what it did
    ncalls,     \* calls started so far
    types0,     \* tls_types when the latest call began
    certs0,     \* tls_certs when the latest call began
    worked      \* (key, backend, certificate mode) of every probe that succeeded

vars == <<tls_types, tls_certs, socks, build_ok, call, ncalls, types0, certs0, worked>>

\* ------------------------------------------------------------------------
\* Client Builder (configure_http_client!, create_http_client[_async])
\* ------------------------------------------------------------------------

\* <$Client>::new(): the library's default client
DefaultClient ==
    [tls |-> "Default", danger |-> FALSE, no_proxy |-> FALSE,
     proxy |-> None, auth |-> FALSE]

\* hbb_common::proxy::Proxy::from_conf: Ok(intercept) or Err
from_conf(conf) ==
    IF conf.fault = "from_conf" THEN None
    ELSE Some([scheme |-> scheme_of(conf.proxy), host |-> rest_of(conf.proxy),
               auth |-> conf.has_auth])

\* faulty variant: the Https arm formats a plain-HTTP proxy target
proxy_setup_https_as_http(intercept) ==
    IF intercept.scheme = "http" THEN Url("http", intercept.host)
    ELSE IF intercept.scheme = "https" THEN Url("http", intercept.host)
    ELSE Url("socks5", intercept.host)

\* the match on proxy.intercept: the string handed to reqwest::Proxy::all,
\* format!("http://{}"), format!("https://{}"), format!("socks5://{}")
proxy_setup(intercept) ==
    IF intercept.scheme = "http" THEN Url("http", intercept.host)
    ELSE IF intercept.scheme = "https" THEN Url("https", intercept.host)
    ELSE Url("socks5", intercept.host)

\* faulty variant: a proxy target reqwest rejects is skipped and the builder
\* goes on without proxy
configure_http_client_skips_bad_proxy(tls_type, danger_accept_invalid_cert, conf, ok) ==
    LET built == [tls |-> tls_type, danger |-> danger_accept_invalid_cert,
                  no_proxy |-> TRUE, proxy |-> None, auth |-> FALSE]
    IN  IF is_some(conf)
        THEN LET proxy_result == from_conf(conf[1])
             IN  IF is_some(proxy_result)
                 THEN IF conf[1].fault = "proxy_all"
                      THEN IF ok THEN built ELSE DefaultClient
                      ELSE IF ok
                           THEN [built EXCEPT
                                   !.proxy = Some(proxy_setup(proxy_result[1])),
                                   !.auth = proxy_result[1].auth]
                           ELSE DefaultClient
                 ELSE DefaultClient
        ELSE IF ok THEN built ELSE DefaultClient

\* the macro body: builder.no_proxy(), certificate mode, TLS backend, proxy
configure_http_client(tls_type, danger_accept_invalid_cert, conf, ok) ==
    LET built == [tls |-> tls_type, danger |-> danger_accept_invalid_cert,
                  no_proxy |-> TRUE, proxy |-> None, auth |-> FALSE]
    IN  IF is_some(conf)
        THEN LET proxy_result == from_conf(conf[1])
             IN  IF is_some(proxy_result)
                 THEN IF conf[1].fault = "proxy_all"
                      THEN DefaultClient
                      ELSE IF ok
                           THEN [built EXCEPT
                                   !.proxy = Some(proxy_setup(proxy_result[1])),
                                   !.auth = proxy_result[1].auth]
                           ELSE DefaultClient
                 ELSE DefaultClient
        ELSE IF ok THEN built ELSE DefaultClient

create_http_client(tls_type, danger_accept_invalid_cert) ==
    configure_http_client(tls_type, danger_accept_invalid_cert, socks, build_ok)

\* ------------------------------------------------------------------------
\* Cache key
\* ------------------------------------------------------------------------

\* hbb_common::tls::is_plain: the URL has the unencrypted scheme
is_plain(url) == scheme_of(url) = "http"

\* faulty variant: the proxy URL is the key of encrypted targets too
get_url_for_tls_any_target(url, proxy_conf) ==
    IF is_some(proxy_conf) /\ scheme_of(proxy_conf[1].proxy) = "https"
    THEN proxy_conf[1].proxy
    ELSE url

get_url_for_tls(url, proxy_conf) ==
    IF is_plain(url) /\ is_some(proxy_conf) /\ scheme_of(proxy_conf[1].proxy) = "https"
    THEN proxy_conf[1].proxy
    ELSE url

\* ------------------------------------------------------------------------
\* Fallback tables: the next (tls_type, danger_accept_invalid_cert) of the
\* recursive call, or None where the match falls to its last arm
\* ------------------------------------------------------------------------

\* faulty variant: the second arm matches a cached backend too
sync_fallback_any_cached(tls_type, is_tls_type_cached, danger, original) ==
    IF tls_type = "NativeTls" /\ danger = None
    THEN Some([tls_type |-> "Rustls", danger |-> Some(TRUE)])
    ELSE IF tls_type = "NativeTls" /\ is_some(danger)
    THEN Some([tls_type |-> "Rustls", danger |-> original])
    ELSE IF tls_type = "Rustls" /\ danger = None
    THEN Some([tls_type |-> "NativeTls", danger |-> Some(TRUE)])
    ELSE None

\* faulty variant: the second arm passes no certificate mode down
sync_fallback_drops_original(tls_type, is_tls_type_cached, danger, original) ==
    IF tls_type = "NativeTls" /\ danger = None
    THEN Some([tls_type |-> "Rustls", danger |-> Some(TRUE)])
    ELSE IF tls_type = "NativeTls" /\ ~is_tls_type_cached /\ is_some(danger)
    THEN Some([tls_type |-> "Rustls", danger |-> None])
    ELSE IF tls_type = "Rustls" /\ danger = None
    THEN Some([tls_type |-> "NativeTls", danger |-> Some(TRUE)])
    ELSE None

sync_fallback(tls_type, is_tls_type_cached, danger, original) ==
    IF tls_type = "NativeTls" /\ danger = None
    THEN Some([tls_type |-> "Rustls", danger |-> Some(TRUE)])
    ELSE IF tls_type = "NativeTls" /\ ~is_tls_type_cached /\ is_some(danger)
    THEN Some([tls_type |-> "Rustls", danger |-> original])
    ELSE IF tls_type = "Rustls" /\ danger = None
    THEN Some([tls_type |-> "NativeTls", danger |-> Some(TRUE)])
    ELSE None

\* faulty variant: the third arm retries with strict validation
async_fallback_strict_retry(tls_type, is_tls_type_cached, danger, original) ==
    IF tls_type = "NativeTls" /\ danger = None
    THEN Some([tls_type |-> "Rustls", danger |-> Some(TRUE)])
    ELSE IF tls_type = "NativeTls" /\ ~is_tls_type_cached /\ is_some(danger)
    THEN Some([tls_type |-> "Rustls", danger |-> original])
    ELSE IF tls_type = "Rustls" /\ danger = None
    THEN Some([tls_type |-> "NativeTls", danger |-> Some(FALSE)])
    ELSE None

async_fallback(tls_type, is_tls_type_cached, danger, original) ==
    IF tls_type = "NativeTls" /\ danger = None
    THEN Some([tls_type |-> "Rustls", danger |-> Some(TRUE)])
    ELSE IF tls_type = "NativeTls" /\ ~is_tls_type_cached /\ is_some(danger)
    THEN Some([tls_type |-> "Rustls", danger |-> original])
    ELSE IF tls_type = "Rustls" /\ danger = None
    THEN Some([tls_type |-> "NativeTls", danger |-> Some(TRUE)])
    ELSE None

\* ------------------------------------------------------------------------
\* State
\* ------------------------------------------------------------------------

\* a caller that is in no call; `reads`, `probes` and `writes` list what the
\* call has read from the cache, probed and written to the cache
IdleFrame ==
    [pc |-> "idle", kind |-> "sync", url |-> Url("http", "a"),
     tls_url |-> Url("http", "a"), tls_type |-> "NativeTls",
     is_tls_type_cached |-> FALSE, danger |-> None, original |-> None,
     client |-> None, reads |-> <<>>, probes |-> <<>>, writes |-> <<>>,
     steps |-> 0]

EmptyCache == [k \in Keys |-> None]

Init ==
    /\ \E k \in Keys, t \in OptTlsType, c \in OptBool :
          /\ tls_types = [EmptyCache EXCEPT ![k] = t]
          /\ tls_certs = [EmptyCache EXCEPT ![k] = c]
    /\ socks \in OrchestratorConfs
    /\ build_ok \in BOOLEAN
    /\ call = [p \in Procs |-> IdleFrame]
    /\ ncalls = 0
    /\ types0 = tls_types
    /\ certs0 = tls_certs
    /\ worked = {}

Resting(p) == call[p].pc \in {"idle", "done"}

\* ------------------------------------------------------------------------
\* Steps of a call
\* ------------------------------------------------------------------------

\* an entry point (blocking or suspending) starts: Config::get_socks() and
\* get_url_for_tls
create_http_client_with_url(p, kind, url) ==
    /\ Resting(p)
    /\ ncalls < MaxCalls
    /\ ncalls' = ncalls + 1
    /\ call' = [call EXCEPT ![p] =
                  [IdleFrame EXCEPT
                     !.pc = "get_type", !.kind = kind, !.url = url,
                     !.tls_url = get_url_for_tls(url, socks)]]
    /\ types0' = tls_types
    /\ certs0' = tls_certs
    /\ UNCHANGED <<tls_types, tls_certs, socks, build_ok, worked>>

\* the caller of the sequential runs
Main == "p1"

\* one call at a time, all by the same caller
SequentialCall(kind, url) ==
    /\ \A q \in Procs : Resting(q)
    /\ create_http_client_with_url(Main, kind, url)

\* calls overlap
ConcurrentCall(p, kind, url) ==
    create_http_client_with_url(p, kind, url)

\* faulty variant: the backend a key without a cached one starts with is Rustls
GetCachedTlsType_rustls_default(p) ==
    /\ call[p].pc = "get_type"
    /\ call' = [call EXCEPT ![p] =
                  [@ EXCEPT !.steps = @ + 1,
                     !.pc = "get_cert",
                     !.reads = Append(@, <<"type", call[p].tls_url,
                                           tls_types[call[p].tls_url]>>),
                     !.is_tls_type_cached = is_some(tls_types[call[p].tls_url]),
                     !.tls_type = unwrap_or(tls_types[call[p].tls_url], "Rustls")]]
    /\ UNCHANGED <<tls_types, tls_certs, socks, build_ok, ncalls, types0, certs0, worked>>

\* get_cached_tls_type(tls_url), is_some, unwrap_or(NativeTls)
GetCachedTlsType(p) ==
    /\ call[p].pc = "get_type"
    /\ call' = [call EXCEPT ![p] =
                  [@ EXCEPT !.steps = @ + 1,
                     !.pc = "get_cert",
                     !.reads = Append(@, <<"type", call[p].tls_url,
                                           tls_types[call[p].tls_url]>>),
                     !.is_tls_type_cached = is_some(tls_types[call[p].tls_url]),
                     !.tls_type = unwrap_or(tls_types[call[p].tls_url], "NativeTls")]]
    /\ UNCHANGED <<tls_types, tls_certs, socks, build_ok, ncalls, types0, certs0, worked>>

\* get_cached_tls_accept_invalid_cert(tls_url), passed twice to the helper
GetCachedAcceptInvalidCert(p) ==
    /\ call[p].pc = "get_cert"
    /\ call' = [call EXCEPT ![p] =
                  [@ EXCEPT !.steps = @ + 1,
                     !.pc = "build",
                     !.reads = Append(@, <<"cert", call[p].tls_url,
                                           tls_certs[call[p].tls_url]>>),
                     !.danger = tls_certs[call[p].tls_url],
                     !.original = tls_certs[call[p].tls_url]]]
    /\ UNCHANGED <<tls_types, tls_certs, socks, build_ok, ncalls, types0, certs0, worked>>

\* faulty variant: the early return on the cached path is missing
BuildClient_always_probes(p) ==
    /\ call[p].pc = "build"
    /\ call' = [call EXCEPT ![p] =
                  [@ EXCEPT !.steps = @ + 1,
                     !.client = Some(create_http_client(call[p].tls_type,
                                         unwrap_or(call[p].danger, FALSE))),
                     !.pc = "probe"]]
    /\ UNCHANGED <<tls_types, tls_certs, socks, build_ok, ncalls, types0, certs0, worked>>

\* faulty variant: the client is built with the original certificate mode
BuildClient_original_mode(p) ==
    /\ call[p].pc = "build"
    /\ call' = [call EXCEPT ![p] =
                  [@ EXCEPT !.steps = @ + 1,
                     !.client = Some(create_http_client(call[p].tls_type,
                                         unwrap_or(call[p].original, FALSE))),
                     !.pc = IF call[p].is_tls_type_cached /\ is_some(call[p].original)
                            THEN "return" ELSE "probe"]]
    /\ UNCHANGED <<tls_types, tls_certs, socks, build_ok, ncalls, types0, certs0, worked>>

\* faulty variant: the helper looks the entry up again to decide on the early
\* return
BuildClient_rereads_cache(p) ==
    /\ call[p].pc = "build"
    /\ call' = [call EXCEPT ![p] =
                  [@ EXCEPT !.steps = @ + 1,
                     !.client = Some(create_http_client(call[p].tls_type,
                                         unwrap_or(call[p].danger, FALSE))),
                     !.pc = IF /\ is_some(tls_types[call[p].tls_url])
                               /\ is_some(tls_certs[call[p].tls_url])
                            THEN "return" ELSE "probe"]]
    /\ UNCHANGED <<tls_types, tls_certs, socks, build_ok, ncalls, types0, certs0, worked>>

\* the helper builds its client and returns it at once on the cached path
BuildClient(p) ==
    /\ call[p].pc = "build"
    /\ call' = [call EXCEPT ![p] =
                  [@ EXCEPT !.steps = @ + 1,
                     !.client = Some(create_http_client(call[p].tls_type,
                                         unwrap_or(call[p].danger, FALSE))),
                     !.pc = IF call[p].is_tls_type_cached /\ is_some(call[p].original)
                            THEN "return" ELSE "probe"]]
    /\ UNCHANGED <<tls_types, tls_certs, socks, build_ok, ncalls, types0, certs0, worked>>

\* what the probe and the frame it was made in are remembered as
ProbeRecord(f, out) ==
    [tls_type |-> f.tls_type, danger |-> f.danger,
     is_tls_type_cached |-> f.is_tls_type_cached, original |-> f.original,
     client |-> f.client[1], out |-> out]

\* the frame after a failed probe whose table row is `next`
AfterFailure(f, out, next) ==
    IF is_some(next)
    THEN [f EXCEPT !.steps = @ + 1, !.pc = "build",
                   !.tls_type = next[1].tls_type, !.danger = next[1].danger,
                   !.probes = Append(@, ProbeRecord(f, out))]
    ELSE [f EXCEPT !.steps = @ + 1, !.pc = "return",
                   !.probes = Append(@, ProbeRecord(f, out))]

\* the successful probes, with the one of frame f added when it succeeds
Worked(f, out) ==
    IF out = "Success"
    THEN worked \cup {<<f.tls_url, f.tls_type, unwrap_or(f.danger, FALSE)>>}
    ELSE worked

\* faulty variant: a probe that failed for another reason than the connection
\* goes on to the upserts
ProbeSync_stores_on_failure(p) ==
    /\ call[p].pc = "probe"
    /\ call[p].kind = "sync"
    /\ Len(call[p].probes) < MaxProbes
    /\ \E out \in Outcomes :
          /\ call' = [call EXCEPT ![p] =
                     IF out = "Success" \/ ~is_request(out)
                     THEN [@ EXCEPT !.steps = @ + 1, !.pc = "upsert_type",
                                    !.probes = Append(@, ProbeRecord(call[p], out))]
                     ELSE AfterFailure(call[p], out,
                              sync_fallback(call[p].tls_type, call[p].is_tls_type_cached,
                                            call[p].danger, call[p].original))]
          /\ worked' = Worked(call[p], out)
    /\ UNCHANGED <<tls_types, tls_certs, socks, build_ok, ncalls, types0, certs0>>

\* blocking helper: client.head(url).send() and the match on its error
ProbeSync(p) ==
    /\ call[p].pc = "probe"
    /\ call[p].kind = "sync"
    /\ Len(call[p].probes) < MaxProbes
    /\ \E out \in Outcomes :
          /\ call' = [call EXCEPT ![p] =
                     IF out = "Success"
                     THEN [@ EXCEPT !.steps = @ + 1, !.pc = "upsert_type",
                                    !.probes = Append(@, ProbeRecord(call[p], out))]
                     ELSE IF is_request(out)
                     THEN AfterFailure(call[p], out,
                              sync_fallback(call[p].tls_type, call[p].is_tls_type_cached,
                                            call[p].danger, call[p].original))
                     ELSE AfterFailure(call[p], out, None)]
          /\ worked' = Worked(call[p], out)
    /\ UNCHANGED <<tls_types, tls_certs, socks, build_ok, ncalls, types0, certs0>>

\* suspending helper: client.head(url).send().await and the match on any error
ProbeAsync(p) ==
    /\ call[p].pc = "probe"
    /\ call[p].kind = "async"
    /\ Len(call[p].probes) < MaxProbes
    /\ \E out \in Outcomes :
          /\ call' = [call EXCEPT ![p] =
                     IF out = "Success"
                     THEN [@ EXCEPT !.steps = @ + 1, !.pc = "upsert_type",
                                    !.probes = Append(@, ProbeRecord(call[p], out))]
                     ELSE AfterFailure(call[p], out,
                              async_fallback(call[p].tls_type, call[p].is_tls_type_cached,
                                             call[p].danger, call[p].original))]
          /\ worked' = Worked(call[p], out)
    /\ UNCHANGED <<tls_types, tls_certs, socks, build_ok, ncalls, types0, certs0>>

\* faulty variant: the backend is stored under the target URL, not the key
UpsertTlsType_by_url(p) ==
    /\ call[p].pc = "upsert_type"
    /\ tls_types' = [tls_types EXCEPT ![call[p].url] = Some(call[p].tls_type)]
    /\ call' = [call EXCEPT ![p] =
                  [@ EXCEPT !.steps = @ + 1, !.pc = "upsert_cert",
                            !.writes = Append(@, <<"type", call[p].url,
                                                   Some(call[p].tls_type)>>)]]
    /\ UNCHANGED <<tls_certs, socks, build_ok, ncalls, types0, certs0, worked>>

\* upsert_tls_type(tls_url, tls_type)
UpsertTlsType(p) ==
    /\ call[p].pc = "upsert_type"
    /\ tls_types' = [tls_types EXCEPT ![call[p].tls_url] = Some(call[p].tls_type)]
    /\ call' = [call EXCEPT ![p] =
                  [@ EXCEPT !.steps = @ + 1, !.pc = "upsert_cert",
                            !.writes = Append(@, <<"type", call[p].tls_url,
                                                   Some(call[p].tls_type)>>)]]
    /\ UNCHANGED <<tls_certs, socks, build_ok, ncalls, types0, certs0, worked>>

\* faulty variant: an absent certificate mode is stored as accept-invalid-cert
sync_upsert_value_lenient_default(danger, original) == unwrap_or(original, TRUE)

\* the certificate mode the blocking helper stores
sync_upsert_value(danger, original) == unwrap_or(original, FALSE)

\* the certificate mode the suspending helper stores
async_upsert_value(danger, original) == unwrap_or(danger, FALSE)

\* faulty variant: the certificate mode is not stored
UpsertAcceptInvalidCert_dropped(p) ==
    /\ call[p].pc = "upsert_cert"
    /\ call' = [call EXCEPT ![p] = [@ EXCEPT !.steps = @ + 1, !.pc = "return"]]
    /\ UNCHANGED <<tls_types, tls_certs, socks, build_ok, ncalls, types0, certs0, worked>>

\* upsert_tls_accept_invalid_cert(tls_url, ...)
UpsertAcceptInvalidCert(p) ==
    /\ call[p].pc = "upsert_cert"
    /\ LET v == IF call[p].kind = "sync"
                THEN sync_upsert_value(call[p].danger, call[p].original)
                ELSE async_upsert_value(call[p].danger, call[p].original)
       IN  /\ tls_certs' = [tls_certs EXCEPT ![call[p].tls_url] = Some(v)]
           /\ call' = [call EXCEPT ![p] =
                         [@ EXCEPT !.steps = @ + 1, !.pc = "return",
                                   !.writes = Append(@, <<"cert", call[p].tls_url,
                                                          Some(v)>>)]]
    /\ UNCHANGED <<tls_types, socks, build_ok, ncalls, types0, certs0, worked>>

\* the helper, and with it the entry point, returns `client`
Return(p) ==
    /\ call[p].pc = "return"
    /\ call' = [call EXCEPT ![p] = [@ EXCEPT !.steps = @ + 1, !.pc = "done"]]
    /\ UNCHANGED <<tls_types, tls_certs, socks, build_ok, ncalls, types0, certs0, worked>>

Step(p) ==
    \/ GetCachedTlsType(p)
    \/ GetCachedAcceptInvalidCert(p)
    \/ BuildClient(p)
    \/ ProbeSync(p)
    \/ ProbeAsync(p)
    \/ UpsertTlsType(p)
    \/ UpsertAcceptInvalidCert(p)
    \/ Return(p)

Kinds == {"sync", "async"}

\* callers run their calls one after the other
Next ==
    \/ \E kind \in Kinds, url \in Targets :
          SequentialCall(kind, url)
    \/ \E p \in Procs : Step(p)

Spec == Init /\ [][Next]_vars

\* ------------------------------------------------------------------------
\* Concurrent callers
\* ------------------------------------------------------------------------

\* nothing cached yet, so that every entry comes from a call's writes
InitConc ==
    /\ tls_types = EmptyCache
    /\ tls_certs = EmptyCache
    /\ socks \in {None, Some([proxy |-> Url("https", ProxyHost), has_auth |-> FALSE,
                               fault |-> "none"])}
    /\ build_ok = TRUE
    /\ call = [p \in Procs |-> IdleFrame]
    /\ ncalls = 0
    /\ types0 = tls_types
    /\ certs0 = tls_certs
    /\ worked = {}

\* callers overlap, interleaved at the single cache reads and writes
NextConc ==
    \/ \E p \in Procs, kind \in Kinds, url \in Targets :
          ConcurrentCall(p, kind, url)
    \/ \E p \in Procs : Step(p)

SpecConc == InitConc /\ [][NextConc]_vars

\* ------------------------------------------------------------------------
\* The blocking and the suspending orchestrator side by side: p1 runs the
\* blocking one on SyncUrl, p2 the suspending one on AsyncUrl, the two keys
\* start with the same entry, and the i-th probes of the two calls end alike
\* ------------------------------------------------------------------------

SyncUrl == Url("http", "a")

AsyncUrl == Url("https", "c")

InitPair ==
    /\ socks \in OrchestratorConfs
    /\ build_ok \in BOOLEAN
    /\ \E t \in OptTlsType, c \in OptBool :
          /\ tls_types = [k \in Keys |->
                IF k \in {get_url_for_tls(SyncUrl, socks), AsyncUrl} THEN t ELSE None]
          /\ tls_certs = [k \in Keys |->
                IF k \in {get_url_for_tls(SyncUrl, socks), AsyncUrl} THEN c ELSE None]
    /\ call = [p \in Procs |-> IdleFrame]
    /\ ncalls = 0
    /\ types0 = tls_types
    /\ certs0 = tls_certs
    /\ worked = {}

\* the probes the two calls have both made ended in the same outcome
SameOutcomes ==
    \A i \in 1..Len(call["p1"].probes) :
        i <= Len(call["p2"].probes) =>
            call["p1"].probes[i].out = call["p2"].probes[i].out

PairSync ==
    /\ call["p1"].pc = "idle"
    /\ ConcurrentCall("p1", "sync", SyncUrl)

PairAsync ==
    /\ call["p2"].pc = "idle"
    /\ ConcurrentCall("p2", "async", AsyncUrl)

PairStep(p) == Step(p) /\ SameOutcomes'

NextPair ==
    \/ PairSync
    \/ PairAsync
    \/ \E p \in Procs : PairStep(p)

SpecPair == InitPair /\ [][NextPair]_vars

\* ------------------------------------------------------------------------
\* The client builder on its own: callers ask create_http_client and
\* create_http_client_async for clients under every proxy configuration
\* ------------------------------------------------------------------------

InitBuilder ==
    /\ tls_types = EmptyCache
    /\ tls_certs = EmptyCache
    /\ socks \in {None} \cup {Some(c) : c \in ProxyConfs}
    /\ build_ok \in BOOLEAN
    /\ call = [p \in Procs |-> IdleFrame]
    /\ ncalls = 0
    /\ types0 = tls_types
    /\ certs0 = tls_certs
    /\ worked = {}

\* the frame of a caller that got its client from the builder: what it asked
\* for and what it was handed
BuiltFrame(kind, tls_type, danger_accept_invalid_cert) ==
    [IdleFrame EXCEPT
       !.pc = "built", !.kind = kind, !.tls_type = tls_type,
       !.danger = Some(danger_accept_invalid_cert),
       !.client = Some(create_http_client(tls_type, danger_accept_invalid_cert))]

\* pub fn create_http_client
CreateHttpClient(p, tls_type, danger_accept_invalid_cert) ==
    /\ ncalls < MaxCalls
    /\ ncalls' = ncalls + 1
    /\ call' = [call EXCEPT ![p] =
                  BuiltFrame("sync", tls_type, danger_accept_invalid_cert)]
    /\ UNCHANGED <<tls_types, tls_certs, socks, build_ok, types0, certs0, worked>>

\* pub fn create_http_client_async
CreateHttpClientAsync(p, tls_type, danger_accept_invalid_cert) ==
    /\ ncalls < MaxCalls
    /\ ncalls' = ncalls + 1
    /\ call' = [call EXCEPT ![p] =
                  BuiltFrame("async", tls_type, danger_accept_invalid_cert)]
    /\ UNCHANGED <<tls_types, tls_certs, socks, build_ok, types0, certs0, worked>>

NextBuilder ==
    \/ \E p \in Procs, t \in TlsType, d \in BOOLEAN : CreateHttpClient(p, t, d)
    \/ \E p \in Procs, t \in TlsType, d \in BOOLEAN : CreateHttpClientAsync(p, t, d)

SpecBuilder == InitBuilder /\ [][NextBuilder]_vars

\* ------------------------------------------------------------------------
\* Properties
\* ------------------------------------------------------------------------

\* the cache entry of key k
Entry(k) == <<tls_types[k], tls_certs[k]>>

\* the cache entry of key k when the latest call began
Entry0(k) == <<types0[k], certs0[k]>>

Last(seq) == seq[Len(seq)]

\* the call of frame f has returned
Returned(f) == f.pc = "done"

\* the (backend, certificate mode) a probe's client was built with
BuiltWith(r) == <<r.tls_type, unwrap_or(r.danger, FALSE)>>

\* C1: when a probe of a call succeeded, the entry the call leaves for its
\* key is the backend of the probed client and the certificate mode that
\* client was built with (absent counted as false).
C1_SuccessCachesProbedPair ==
    \A p \in Procs :
        LET f == call[p] IN
        (Returned(f) /\ f.probes # <<>> /\ Last(f.probes).out = "Success")
            => Entry(f.tls_url) = <<Some(BuiltWith(Last(f.probes))[1]),
                                    Some(BuiltWith(Last(f.probes))[2])>>

\* C2: a probe that fails with an error that is not connect/TLS-class ends
\* the call: it is the last probe, nothing is written, the cache is as it
\* was at entry, and the client probed is the client returned.
C2_OtherFailureStops ==
    \A p \in Procs :
        LET f == call[p] IN
        \A i \in 1..Len(f.probes) :
            f.probes[i].out = "OtherFailure"
                => /\ i = Len(f.probes)
                   /\ f.pc \in {"return", "done"}
                   /\ f.writes = <<>>
                   /\ tls_types = types0 /\ tls_certs = certs0
                   /\ f.client = Some(f.probes[i].client)

\* what a returned call did: the candidates probed, the client returned and
\* the entry left for its key
Behaviour(f) ==
    [probed |-> [i \in 1..Len(f.probes) |-> <<f.probes[i].tls_type, f.probes[i].danger>>],
     client |-> f.client,
     entry |-> Entry(f.tls_url)]

\* C3: on the same initial entry, proxy configuration and probe outcomes the
\* blocking and the suspending orchestrator probe the same candidates, return
\* the same client and leave the same cache entry.
C3_SyncAsyncAgree ==
    (Returned(call["p1"]) /\ Returned(call["p2"]))
        => Behaviour(call["p1"]) = Behaviour(call["p2"])

\* every probed client of frame f was built as asked for, and the probe
\* succeeded exactly for a Rustls client that accepts invalid certificates
\* and failed at connection level for every other client
OnlyRustlsDangerWorks(f) ==
    \A i \in 1..Len(f.probes) :
        LET r == f.probes[i] IN
        /\ <<r.client.tls, r.client.danger>> = BuiltWith(r)
        /\ r.out = IF BuiltWith(r) = <<"Rustls", TRUE>> THEN "Success"
                   ELSE "ConnectFailure"

\* C4: for a URL that only (Rustls, accept invalid certificates) reaches, a
\* call that starts from an empty entry leaves exactly (Rustls, true) cached.
C4_ConvergesToRustlsDanger ==
    \A p \in Procs :
        LET f == call[p] IN
        (Returned(f) /\ Entry0(f.tls_url) = <<None, None>> /\ OnlyRustlsDangerWorks(f))
            => Entry(f.tls_url) = <<Some("Rustls"), Some(TRUE)>>

\* C5: whatever the entry of the key and the probe outcomes, a call makes at
\* most 2 probes, never starts a third build, can always take its next step
\* and has returned after at most 9 steps.
C5_BoundedTermination ==
    \A p \in Procs :
        LET f == call[p] IN
        /\ Len(f.probes) <= 2
        /\ Len(f.probes) = 2 => f.pc \notin {"build", "probe"}
        /\ f.steps <= 9
        /\ ~Resting(p) => ENABLED Step(p)

C5_Witness ==
    \E p \in Procs :
        LET f == call[p] IN
        /\ Returned(f) /\ Len(f.probes) = 2
        /\ \A i \in 1..2 : f.probes[i].out = "ConnectFailure"

\* the builder can build what it is asked for
BuilderWorks == build_ok /\ (socks = None \/ socks[1].fault = "none")

\* C6: a call that finds both the backend and the certificate mode cached
\* makes no probe and no cache write and returns the client built from
\* exactly the cached pair.
C6_FastPath ==
    \A p \in Procs :
        LET f == call[p]
            e == Entry0(f.tls_url)
        IN  (f.pc # "idle" /\ is_some(e[1]) /\ is_some(e[2]))
               => /\ f.probes = <<>> /\ f.writes = <<>>
                  /\ tls_types = types0 /\ tls_certs = certs0
                  /\ f.pc \notin {"probe", "upsert_type", "upsert_cert"}
                  /\ Returned(f) =>
                        /\ f.client = Some(create_http_client(e[1][1], e[2][1]))
                        /\ BuilderWorks =>
                              <<f.client[1].tls, f.client[1].danger>> = <<e[1][1], e[2][1]>>

C6_Witness ==
    \E p \in Procs :
        LET f == call[p] IN
        /\ Returned(f) /\ f.probes = <<>>
        /\ Entry0(f.tls_url) = <<Some("Rustls"), Some(TRUE)>>
        /\ f.client[1].tls = "Rustls" /\ f.client[1].danger

\* the fixed table of the fallback: the candidate after a connection-level
\* failure of the probe recorded as r, None where the state is terminal
TableNext(r) ==
    IF r.tls_type = "NativeTls" /\ r.danger = None
    THEN Some(<<"Rustls", Some(TRUE)>>)
    ELSE IF r.tls_type = "NativeTls" /\ ~r.is_tls_type_cached /\ r.danger # None
    THEN Some(<<"Rustls", r.danger>>)
    ELSE IF r.tls_type = "Rustls" /\ r.danger = None
    THEN Some(<<"NativeTls", Some(TRUE)>>)
    ELSE None

\* the candidate frame f turned to after its i-th probe, None if it stopped
Following(f, i) ==
    IF i < Len(f.probes)
    THEN Some(<<f.probes[i + 1].tls_type, f.probes[i + 1].danger>>)
    ELSE IF f.pc \in {"build", "probe"} THEN Some(<<f.tls_type, f.danger>>)
    ELSE None

\* C7: after a connection-level failure the next candidate is the one of the
\* fixed table, and in a terminal state nothing more is built or probed and
\* the current client is the one returned.
C7_FallbackTable ==
    \A p \in Procs :
        LET f == call[p] IN
        \A i \in 1..Len(f.probes) :
            f.probes[i].out = "ConnectFailure"
                => /\ Following(f, i) = TableNext(f.probes[i])
                   /\ TableNext(f.probes[i]) = None
                        => f.client = Some(f.probes[i].client)

C7_Witness ==
    \E p \in Procs :
        LET f == call[p] IN
        /\ Len(f.probes) = 2
        /\ f.probes[1].tls_type = "NativeTls" /\ ~f.probes[1].is_tls_type_cached
        /\ f.probes[1].danger = Some(TRUE) /\ f.probes[1].out = "ConnectFailure"
        /\ f.probes[2].tls_type = "Rustls" /\ f.probes[2].danger = Some(TRUE)

\* C8 as stated: a call for URL A never changes the entry that a call for
\* another URL B reads.
C8_OtherUrlsUntouched ==
    \A p \in Procs :
        LET f == call[p] IN
        f.pc # "idle"
            => \A B \in Targets :
                   B # f.url => Entry(get_url_for_tls(B, socks))
                                   = Entry0(get_url_for_tls(B, socks))

\* C8 amended: a call changes no entry but the one of its own key, so the
\* entry read for a URL B is untouched whenever B's key differs from A's.
C8_OtherKeysUntouched ==
    \A p \in Procs :
        LET f == call[p] IN
        f.pc # "idle"
            => \A k \in Keys : k # f.tls_url => Entry(k) = Entry0(k)

C8_Witness ==
    \E p \in Procs :
        LET f == call[p] IN
        /\ Returned(f) /\ Len(f.writes) = 2
        /\ f.tls_url # f.url
        /\ Entry(f.tls_url) # Entry0(f.tls_url)

\* C9: every entry with both fields present is a (backend, certificate mode)
\* pair with which a probe for that key succeeded.
C9_EntriesWorked ==
    \A k \in Keys :
        (is_some(tls_types[k]) /\ is_some(tls_certs[k]))
            => <<k, tls_types[k][1], tls_certs[k][1]>> \in worked

\* the same for suspending callers alone: the two writes of one call can be
\* interleaved with those of another, which mixes two pairs that worked
C9_AsyncEntriesWorked ==
    (\A p \in Procs : call[p].kind = "async") => C9_EntriesWorked

\* C10: a call all of whose probes failed at connection level returns the
\* client built for the last candidate and leaves the cache as it found it.
C10_TerminalFailure ==
    \A p \in Procs :
        LET f == call[p] IN
        (Returned(f) /\ f.probes # <<>>
           /\ \A i \in 1..Len(f.probes) : f.probes[i].out = "ConnectFailure")
            => /\ is_some(f.client)
               /\ f.client = Some(Last(f.probes).client)
               /\ f.client[1] = create_http_client(BuiltWith(Last(f.probes))[1],
                                                   BuiltWith(Last(f.probes))[2])
               /\ f.writes = <<>>
               /\ tls_types = types0 /\ tls_certs = certs0

C10_Witness ==
    \E p \in Procs :
        LET f == call[p] IN
        /\ Returned(f) /\ Len(f.probes) = 2
        /\ \A i \in 1..2 : f.probes[i].out = "ConnectFailure"
        /\ f.client[1].tls = "Rustls" /\ f.client[1].danger

\* ------------------------------------------------------------------------
\* C11
\* ------------------------------------------------------------------------

\* the entry a call found under its key lets it take the fast path
FastEntry(f) == is_some(types0[f.tls_url]) /\ is_some(certs0[f.tls_url])

\* the call has built its first client
FirstBuilt(f) == f.pc \in {"probe", "upsert_type", "upsert_cert", "return", "done"}

\* C11 as stated: whenever the entry of the key lacks the backend or the
\* certificate mode, the first client built and probed uses NativeTls and the
\* cached certificate mode (absent, built as strict, when none is cached).
C11_FirstProbeNativeTls ==
    \A p \in Procs :
        LET f == call[p]
        IN  (FirstBuilt(f) /\ ~FastEntry(f)) =>
                /\ f.probes # <<>> \/ f.pc = "probe"
                /\ f.probes # <<>> =>
                      /\ f.probes[1].tls_type = "NativeTls"
                      /\ f.probes[1].danger = certs0[f.tls_url]
                      /\ f.probes[1].client =
                            create_http_client("NativeTls",
                                unwrap_or(certs0[f.tls_url], FALSE))

\* C11 amended: whenever the entry of the key lacks the backend or the
\* certificate mode, the first client built and probed uses the cached backend
\* if one is present, else NativeTls, and the cached certificate mode if one is
\* present, else absent (built as strict).
C11_FirstProbeCachedOrNativeTls ==
    \A p \in Procs :
        LET f == call[p]
        IN  (FirstBuilt(f) /\ ~FastEntry(f)) =>
                /\ f.probes # <<>> \/ f.pc = "probe"
                /\ f.probes # <<>> =>
                      /\ f.probes[1].tls_type =
                            unwrap_or(types0[f.tls_url], "NativeTls")
                      /\ f.probes[1].danger = certs0[f.tls_url]
                      /\ f.probes[1].client =
                            create_http_client(
                                unwrap_or(types0[f.tls_url], "NativeTls"),
                                unwrap_or(certs0[f.tls_url], FALSE))

\* a call that found a cached Rustls without a certificate mode has probed
\* with Rustls first
C11_Witness ==
    \E p \in Procs :
        /\ call[p].probes # <<>>
        /\ types0[call[p].tls_url] = Some("Rustls")
        /\ certs0[call[p].tls_url] = None
        /\ call[p].probes[1].tls_type = "Rustls"
        /\ call[p].probes[1].danger = None

\* ------------------------------------------------------------------------
\* C12
\* ------------------------------------------------------------------------

\* the target is unencrypted and a proxy with an https URL is configured
PlainUnderHttpsProxy(url) ==
    /\ scheme_of(url) = "http"
    /\ socks # None
    /\ scheme_of(socks[1].proxy) = "https"

\* C12: every cache read and every cache write of a call uses the proxy's URL
\* as key if and only if the target is unencrypted and a proxy with an https
\* URL is configured, and the unchanged target URL in every other case; no
\* entry under another key is changed by the call.
C12_CanonicalKey ==
    \A p \in Procs :
        LET f == call[p]
            used == {f.reads[i][2] : i \in 1..Len(f.reads)}
                    \cup {f.writes[i][2] : i \in 1..Len(f.writes)}
        IN  f.pc # "idle" =>
                /\ \A k \in used :
                      /\ PlainUnderHttpsProxy(f.url) <=>
                            (socks # None /\ k = socks[1].proxy)
                      /\ ~PlainUnderHttpsProxy(f.url) <=> k = f.url
                /\ f.pc \notin {"get_type", "get_cert"} => Len(f.reads) = 2
                /\ \A k \in Keys :
                      (k \notin used) =>
                          tls_types[k] = types0[k] /\ tls_certs[k] = certs0[k]

\* a call for an unencrypted target under an https proxy has read and, after
\* a successful probe, written the entry of the proxy URL
C12_Witness ==
    \E p \in Procs :
        /\ call[p].pc = "done"
        /\ PlainUnderHttpsProxy(call[p].url)
        /\ Len(call[p].reads) = 2
        /\ Len(call[p].writes) = 2
        /\ call[p].writes[2][2] = Url("https", ProxyHost)
        /\ Entry(call[p].url) = Entry0(call[p].url)
        /\ Entry(Url("https", ProxyHost)) # Entry0(Url("https", ProxyHost))

\* ------------------------------------------------------------------------
\* C13
\* ------------------------------------------------------------------------

\* a probe of the call succeeded
ProbeSucceeded(f) == f.probes # <<>> /\ Last(f.probes).out = "Success"

\* a probe of an earlier call succeeded for the key of call f: the calls run
\* one after the other, and a success is on record for the key that is not
\* one of f itself
Remembered(f) ==
    /\ f.pc # "idle"
    /\ \E w \in worked : w[1] = f.tls_url
    /\ ~ProbeSucceeded(f)

\* C13: when a call in which a probe succeeded has returned, and nobody else
\* writes, the entry of its key holds a backend and a certificate mode; and a
\* call for a key a probe of an earlier call succeeded for takes the fast
\* path: it probes nothing, writes nothing, and returns the client built from
\* the remembered entry.
C13_RememberedSuccess ==
    \A p \in Procs :
        LET f == call[p]
        IN  /\ (Returned(f) /\ ProbeSucceeded(f)) =>
                  /\ is_some(tls_types[f.tls_url])
                  /\ is_some(tls_certs[f.tls_url])
            /\ Remembered(f) =>
                  /\ FastEntry(f)
                  /\ f.probes = <<>>
                  /\ f.writes = <<>>
                  /\ Entry(f.tls_url) = Entry0(f.tls_url)
                  /\ f.pc # "probe"
                  /\ Returned(f) =>
                        f.client = Some(create_http_client(types0[f.tls_url][1],
                                                           certs0[f.tls_url][1]))

\* the second call for a key whose entry the first call filled after a
\* successful probe has returned without probing
C13_Witness ==
    \E p \in Procs :
        /\ Returned(call[p])
        /\ Remembered(call[p])
        /\ call[p].probes = <<>>
        /\ is_some(call[p].client)

\* ------------------------------------------------------------------------
\* C14
\* ------------------------------------------------------------------------

\* the call found no entry under its key, runs without proxy, and its first
\* probe succeeded
FreshFirstSuccess(f) ==
    /\ Entry0(f.tls_url) = <<None, None>>
    /\ socks = None
    /\ f.probes # <<>>
    /\ f.probes[1].out = "Success"

\* C14: with no entry for the key and no proxy, when the first probe, on
\* (NativeTls, certificate mode absent), succeeds, the call makes exactly one
\* probe, the entry of the key afterwards is (NativeTls, false), and the
\* returned client validates certificates strictly.
C14_FreshFirstProbeSuccess ==
    \A p \in Procs :
        LET f == call[p]
        IN  FreshFirstSuccess(f) =>
                /\ Len(f.probes) = 1
                /\ f.probes[1].tls_type = "NativeTls"
                /\ f.probes[1].danger = None
                /\ f.pc \notin {"probe", "build"}
                /\ Returned(f) =>
                      /\ Entry(f.tls_url) = <<Some("NativeTls"), Some(FALSE)>>
                      /\ f.client = Some(f.probes[1].client)
                      /\ f.client[1].danger = FALSE
                      /\ f.client[1].proxy = None
                      /\ build_ok => f.client[1].tls = "NativeTls"

\* such a call has returned, blocking and suspending
C14_Witness ==
    \E p \in Procs :
        /\ Returned(call[p])
        /\ FreshFirstSuccess(call[p])
        /\ call[p].kind = "sync"
        /\ build_ok
        /\ Entry(call[p].tls_url) = <<Some("NativeTls"), Some(FALSE)>>

\* ------------------------------------------------------------------------
\* C15
\* ------------------------------------------------------------------------

\* the caller holds a client the builder handed out
Built(f) == f.pc = "built"

\* applying the configured proxy or building the client fails
BuilderFails ==
    \/ socks # None /\ socks[1].fault # "none"
    \/ ~build_ok

\* C15: every client the builder hands out, for every backend, certificate
\* mode and proxy configuration, has the proxy detection from the environment
\* switched off.
C15_NoEnvironmentProxy ==
    \A p \in Procs :
        Built(call[p]) => call[p].client[1].no_proxy

\* ------------------------------------------------------------------------
\* C16
\* ------------------------------------------------------------------------

\* C16: the builder always hands out a client; when the proxy configuration
\* cannot be resolved, the proxy target is rejected or the build fails, the
\* client has no proxy and default TLS settings, whatever was asked for;
\* otherwise it has exactly the backend and certificate mode asked for and the
\* resolved proxy.
C16_BuilderNeverFails ==
    \A p \in Procs :
        LET f == call[p]
        IN  Built(f) =>
              /\ is_some(f.client)
              /\ BuilderFails =>
                    /\ f.client[1].tls = "Default"
                    /\ f.client[1].danger = FALSE
                    /\ f.client[1].proxy = None
                    /\ f.client[1].auth = FALSE
              /\ ~BuilderFails =>
                    /\ f.client[1].tls = f.tls_type
                    /\ f.client[1].danger = f.danger[1]
                    /\ f.client[1].proxy = (IF socks = None THEN None
                                            ELSE Some(socks[1].proxy))

\* a caller asked for Rustls with accept-invalid-cert under a proxy target
\* that is rejected and got the default client
C16_Witness ==
    \E p \in Procs :
        /\ Built(call[p])
        /\ socks # None
        /\ socks[1].fault = "proxy_all"
        /\ build_ok
        /\ call[p].tls_type = "Rustls"
        /\ call[p].danger = Some(TRUE)
        /\ call[p].client[1].tls = "Default"

\* ------------------------------------------------------------------------
\* C17
\* ------------------------------------------------------------------------

\* the proxy target string of a configuration, by its scheme
ProxyTarget(conf) ==
    CASE scheme_of(conf.proxy) = "http" -> Url("http", rest_of(conf.proxy))
      [] scheme_of(conf.proxy) = "https" -> Url("https", rest_of(conf.proxy))
      [] scheme_of(conf.proxy) = "socks5" -> Url("socks5", rest_of(conf.proxy))

\* C17: for a proxy configuration that resolves, the client built has the
\* proxy target http://<host>, https://<host> or socks5://<addr> by the scheme
\* of the configuration, and has the proxy-authorization header if and only
\* if the configuration carries credentials.
C17_ProxyApplication ==
    \A p \in Procs :
        LET f == call[p]
        IN  (Built(f) /\ socks # None /\ ~BuilderFails) =>
              /\ f.client[1].proxy = Some(ProxyTarget(socks[1]))
              /\ f.client[1].auth <=> socks[1].has_auth
              /\ f.client[1].no_proxy

\* a Socks5 configuration without credentials gave a client with the socks5
\* target and no proxy-authorization header
C17_Witness ==
    \E p \in Procs :
        /\ Built(call[p])
        /\ socks = Some([proxy |-> Url("socks5", ProxyHost), has_auth |-> FALSE,
                         fault |-> "none"])
        /\ build_ok
        /\ call[p].client[1].proxy = Some(Url("socks5", ProxyHost))
        /\ ~call[p].client[1].auth

\* ------------------------------------------------------------------------
\* C18
\* ------------------------------------------------------------------------

\* the helper state from which two rows of the table would alternate
Alternating(tls_type, is_tls_type_cached, danger) ==
    tls_type = "Rustls" /\ ~is_tls_type_cached /\ danger = None

\* C18: within one call the cached flag and the original certificate mode
\* handed down the recursion stay what the entry point read, no (backend,
\* certificate mode) candidate is probed twice, and the helper is never in
\* the state (Rustls, not cached, certificate mode absent).
C18_RecursionInvariants ==
    \A p \in Procs :
        LET f == call[p]
        IN  /\ Len(f.reads) = 2 =>
                  /\ f.is_tls_type_cached = is_some(f.reads[1][3])
                  /\ f.original = f.reads[2][3]
            /\ \A i \in 1..Len(f.probes) :
                  /\ f.probes[i].is_tls_type_cached = f.is_tls_type_cached
                  /\ f.probes[i].original = f.original
                  /\ ~Alternating(f.probes[i].tls_type,
                                  f.probes[i].is_tls_type_cached, f.probes[i].danger)
            /\ \A i, j \in 1..Len(f.probes) :
                  i < j =>
                      /\ BuiltWith(f.probes[i]) # BuiltWith(f.probes[j])
                      /\ <<f.probes[i].tls_type, f.probes[i].danger>> #
                            <<f.probes[j].tls_type, f.probes[j].danger>>
            /\ ~Alternating(f.tls_type, f.is_tls_type_cached, f.danger)

\* a call that went down the recursion from a cached Rustls to NativeTls and
\* one level further has returned
C18_Witness ==
    \E p \in Procs :
        /\ Returned(call[p])
        /\ Len(call[p].probes) = 2
        /\ call[p].probes[1].tls_type = "Rustls"
        /\ call[p].probes[1].is_tls_type_cached
        /\ call[p].probes[2].tls_type = "NativeTls"
        /\ call[p].probes[2].is_tls_type_cached
        /\ call[p].probes[2].original = None

\* ------------------------------------------------------------------------
\* C19
\* ------------------------------------------------------------------------

\* C19: a call writes the cache at most once, the backend and then the
\* certificate mode, both under the key it read at entry, and only directly
\* after one of its probes succeeded; a successful probe is the last probe of
\* the call, and no probe follows a write.
C19_WritesOnlyAfterSuccess ==
    \A p \in Procs :
        LET f == call[p]
        IN  /\ Len(f.writes) <= 2
            /\ Len(f.writes) >= 1 =>
                  /\ f.writes[1][1] = "type"
                  /\ Len(f.reads) = 2
                  /\ f.writes[1][2] = f.reads[1][2]
                  /\ f.writes[1][3] = Some(Last(f.probes).tls_type)
            /\ Len(f.writes) = 2 =>
                  /\ f.writes[2][1] = "cert"
                  /\ f.writes[2][2] = f.reads[2][2]
                  /\ f.writes[2][2] = f.writes[1][2]
            /\ f.writes # <<>> =>
                  /\ ProbeSucceeded(f)
                  /\ f.pc \in {"upsert_cert", "return", "done"}
            /\ (f.pc # "idle" /\ f.writes = <<>>) =>
                  \A k \in Keys : Entry(k) = Entry0(k)
            /\ \A i \in 1..Len(f.probes) :
                  f.probes[i].out = "Success" => i = Len(f.probes)
            /\ ProbeSucceeded(f) =>
                  /\ f.pc \in {"upsert_type", "upsert_cert", "return", "done"}
                  /\ f.pc = "upsert_type" <=> Len(f.writes) = 0
                  /\ f.pc = "upsert_cert" <=> Len(f.writes) = 1
                  /\ f.pc \in {"return", "done"} <=> Len(f.writes) = 2

\* a call whose second probe succeeded has written both fields and returned
C19_Witness ==
    \E p \in Procs :
        /\ Returned(call[p])
        /\ Len(call[p].probes) = 2
        /\ ProbeSucceeded(call[p])
        /\ Len(call[p].writes) = 2
        /\ Entry(call[p].tls_url) # Entry0(call[p].tls_url)

\* ------------------------------------------------------------------------
\* C20
\* ------------------------------------------------------------------------

\* the candidate after candidate c = <<backend, certificate mode>> failed, in
\* a call whose two reads returned t and d; None when the call stops
NextCandidate(c, t, d) ==
    IF c[1] = "NativeTls" /\ c[2] = None THEN Some(<<"Rustls", Some(TRUE)>>)
    ELSE IF c[1] = "NativeTls" /\ t = None THEN Some(<<"Rustls", d>>)
    ELSE IF c[1] = "Rustls" /\ c[2] = None THEN Some(<<"NativeTls", Some(TRUE)>>)
    ELSE None

\* whether a call of the given kind goes on after a probe that ended in `out`
GoesOn(kind, out) == out # "Success" /\ (kind = "async" \/ is_request(out))

\* C20: a call reads the cache at entry only, the backend and then the
\* certificate mode; with other callers writing the same key in between, its
\* probes are those the two values read and the outcomes of its own probes
\* determine, it makes at most 2 probes, and it returns without probing only
\* if both reads returned a value.
C20_ReadsOnlyAtEntry ==
    \A p \in Procs :
        LET f == call[p]
            t == f.reads[1][3]
            d == f.reads[2][3]
        IN  /\ Len(f.reads) <= 2
            /\ Len(f.reads) = (CASE f.pc \in {"idle", "get_type"} -> 0
                                 [] f.pc = "get_cert" -> 1
                                 [] OTHER -> 2)
            /\ Len(f.reads) >= 1 => f.reads[1][1] = "type"
            /\ Len(f.reads) = 2 => f.reads[2][1] = "cert"
            /\ Len(f.probes) <= 2
            /\ f.probes # <<>> =>
                  /\ f.probes[1].tls_type = unwrap_or(t, "NativeTls")
                  /\ f.probes[1].danger = d
            /\ \A i \in 1..Len(f.probes) :
                  LET c == <<f.probes[i].tls_type, f.probes[i].danger>>
                      goes == /\ GoesOn(f.kind, f.probes[i].out)
                              /\ is_some(NextCandidate(c, t, d))
                  IN  /\ f.probes[i].client =
                            create_http_client(c[1], unwrap_or(c[2], FALSE))
                      /\ i < Len(f.probes) =>
                            /\ goes
                            /\ <<f.probes[i + 1].tls_type, f.probes[i + 1].danger>> =
                                  NextCandidate(c, t, d)[1]
                      /\ (i = Len(f.probes) /\ goes) => f.pc \in {"build", "probe"}
                      /\ (i = Len(f.probes) /\ ~goes) => f.pc \notin {"build", "probe"}
            /\ (f.pc \in {"return", "done"} /\ f.probes = <<>>) =>
                  is_some(t) /\ is_some(d)
            /\ (f.pc \in {"probe", "return", "done"} /\ is_some(t) /\ is_some(d)) =>
                  f.probes = <<>> /\ f.pc # "probe"
            /\ f.steps <= 9

\* a call saw a torn entry, the backend absent and the certificate mode
\* present, because another call wrote both between its two reads, and has
\* returned after probing
C20_Witness ==
    \E p \in Procs :
        /\ Returned(call[p])
        /\ call[p].reads[1][3] = None
        /\ is_some(call[p].reads[2][3])
        /\ Len(call[p].probes) = 2
        /\ \E q \in Procs \ {p} :
              /\ Len(call[q].writes) = 2
              /\ call[q].tls_url = call[p].tls_url

====
